---- MODULE Spec2Model ----
(***************************************************************************)
(* Model of src/src/dump.rs: a batch of self-transfers is prepared with     *)
(* pre-assigned nonces (create_transaction, the loop of main at lines       *)
(* 101-113) and then submitted concurrently (send_transaction, the futures  *)
(* built at lines 125-132 and joined with join_all at line 136).            *)
(*                                                                         *)
(* Nonces and gas prices are modelled as naturals: the starting nonce is    *)
(* the account's transaction count and the batch size a command-line        *)
(* count, both far from the u64 range in any run that terminates.           *)
(***************************************************************************)
EXTENDS Integers, Sequences, FiniteSets, TLC

\* ---------------------------------------------------------------- bounds
\* Largest batch size (num_transactions) explored.
MaxBatch == 3

\* Transaction counts the node may report for the account (line 80).
StartNonces == {0, 5}

\* Baseline gas prices the node may report (line 81).
BaselinePrices == {1, 30}

\* Causes with which client.send_transaction may fail (line 44).
SubmitErrors == {"NonceRejected", "TransportError", "SignerError"}

\* ------------------------------------------------------- program constants
\* tx.set_gas(21000)
GAS_LIMIT == 21000

\* default_gas_price * 3
GAS_MULTIPLIER == 3

VARIABLES
    pc,                \* position of main
    num_transactions,  \* parsed command-line count
    buildErrs,         \* sequence indices at which the builder returns Err
    starting_nonce,    \* value read at line 80
    default_gas_price, \* value read at line 81
    gas_price,         \* line 82
    i,                 \* loop variable of the preparation loop
    prepared_txs,      \* Vec of (i, nonce, tx)
    futures,           \* Vec of the submission futures, in creation order
    sending_start,     \* TRUE once the dispatch timer is started (line 135)
    sending_duration,  \* TRUE once the dispatch timer is read (line 137)
    results,           \* output of join_all
    r,                 \* position of the result-processing loop
    sent_txs,          \* Vec of hashes of the successful submissions
    rpc_log,           \* the RPC calls issued so far, in order
    submit_calls,      \* per sequence index: calls of client.send_transaction
    node_reply,        \* per submitted nonce: what the node answered
    arrival,           \* futures positions in order of completion
    console            \* what main has printed so far, in order

vars == <<pc, num_transactions, buildErrs, starting_nonce, default_gas_price,
          gas_price, i, prepared_txs, futures, sending_start,
          sending_duration, results, r, sent_txs, rpc_log, submit_calls,
          node_reply, arrival, console>>

Indices == 0 .. (MaxBatch - 1)

\* ------------------------------------------------------------ pure helpers
Ok(h) == [ok |-> TRUE, hash |-> h]

Err(c) == [ok |-> FALSE, err |-> c]

\* The transaction hash identifies the signed transaction; the transactions
\* of one batch differ in their nonce only.
TxHash(tx) == tx.nonce

create_transaction_baseline(nonce, gp) ==
    [ok |-> TRUE,
     tx |-> [to |-> "self", value |-> 0, nonce |-> nonce,
             gas |-> GAS_LIMIT, gas_price |-> default_gas_price]]

create_transaction_rejecting(nonce, gp) ==
    IF nonce = 1
    THEN [ok |-> FALSE, err |-> "BuildError"]
    ELSE [ok |-> TRUE,
          tx |-> [to |-> "self", value |-> 0, nonce |-> nonce,
                  gas |-> GAS_LIMIT, gas_price |-> gp]]

\* create_transaction (lines 13-33): always Ok(tx).
create_transaction(nonce, gp) ==
    [ok |-> TRUE,
     tx |-> [to |-> "self", value |-> 0, nonce |-> nonce,
             gas |-> GAS_LIMIT, gas_price |-> gp]]

\* The Result matched at line 104.  The builder of the source never fails;
\* buildErrs injects the Err arm of its declared Result type.
BuildResult(idx, nonce, gp) ==
    IF idx \in buildErrs
    THEN [ok |-> FALSE, err |-> "BuildError"]
    ELSE create_transaction(nonce, gp)

NonceFor_offByOne(idx) == starting_nonce + idx + 1

NonceFor_compact(idx) == starting_nonce + Len(prepared_txs)

\* let nonce = starting_nonce + i (line 102)
NonceFor(idx) == starting_nonce + idx

LoopContinues_inclusive(idx) == idx <= num_transactions

LoopContinues_early(idx) == idx < num_transactions /\ idx < 1

\* for i in 0..num_transactions (line 101)
LoopContinues(idx) == idx < num_transactions

\* A line printed by main: its kind, the 1-based transaction number and the
\* nonce when the line shows them, the error text and the count it shows.
Line(kind, tx, nonce, err, count) ==
    [kind |-> kind, tx |-> tx, nonce |-> nonce, err |-> err, count |-> count]

\* The diagnostic of a panic or of an Err returned from main.
Fatal(cause) == Line("fatal", 0, <<>>, cause, 0)

\* What client.send_transaction(tx, None) may return for tx (line 44).
Replies(tx) == {Ok(TxHash(tx))} \cup {Err(c) : c \in SubmitErrors}

\* ------------------------------------------------------------------- Init
InitCommon ==
    /\ pc = "config"
    /\ num_transactions \in 0 .. MaxBatch
    /\ starting_nonce = 0
    /\ default_gas_price = 0
    /\ gas_price = 0
    /\ i = 0
    /\ prepared_txs = <<>>
    /\ futures = <<>>
    /\ sending_start = FALSE
    /\ sending_duration = FALSE
    /\ results = <<>>
    /\ r = 1
    /\ sent_txs = <<>>
    /\ rpc_log = <<>>
    /\ submit_calls = [idx \in Indices |-> 0]
    /\ node_reply = <<>>
    /\ arrival = <<>>
    /\ console = <<>>

\* The program as written: create_transaction never returns Err.
Init == InitCommon /\ buildErrs = {}

\* The preparation loop run against a builder that may fail on any item.
InitBuildErr == InitCommon /\ buildErrs \in SUBSET Indices

\* ---------------------------------------------------------------- setup
ReadConfig_continue ==
    /\ pc = "config"
    /\ \/ /\ pc' = "client"
          /\ UNCHANGED console
       \/ /\ pc' = "client"
          /\ console' = Append(console, Fatal("ConfigError"))
    /\ UNCHANGED <<num_transactions, buildErrs, starting_nonce,
                   default_gas_price, gas_price, i, prepared_txs, futures,
                   sending_start, sending_duration, results, r, sent_txs,
                   rpc_log, submit_calls, node_reply, arrival>>

\* env::var(..).expect(..) at lines 67-68: a missing setting panics.
ReadConfig ==
    /\ pc = "config"
    /\ \/ /\ pc' = "client"
          /\ UNCHANGED console
       \/ /\ pc' = "aborted"
          /\ console' = Append(console, Fatal("ConfigError"))
    /\ UNCHANGED <<num_transactions, buildErrs, starting_nonce,
                   default_gas_price, gas_price, i, prepared_txs, futures,
                   sending_start, sending_duration, results, r, sent_txs,
                   rpc_log, submit_calls, node_reply, arrival>>

\* Provider::try_from(rpc_url)? and private_key.parse()? at lines 71-72.
BuildClient ==
    /\ pc = "client"
    /\ \/ /\ pc' = "chainid"
          /\ UNCHANGED console
       \/ /\ pc' = "aborted"
          /\ console' = Append(console, Fatal("InvalidSetting"))
    /\ UNCHANGED <<num_transactions, buildErrs, starting_nonce,
                   default_gas_price, gas_price, i, prepared_txs, futures,
                   sending_start, sending_duration, results, r, sent_txs,
                   rpc_log, submit_calls, node_reply, arrival>>

\* provider.get_chainid().await? at line 74.
GetChainId ==
    /\ pc = "chainid"
    /\ rpc_log' = Append(rpc_log, "get_chainid")
    /\ \/ /\ pc' = "get_nonce"
          /\ UNCHANGED console
       \/ /\ pc' = "aborted"
          /\ console' = Append(console, Fatal("ConnectionError"))
    /\ UNCHANGED <<num_transactions, buildErrs, starting_nonce,
                   default_gas_price, gas_price, i, prepared_txs, futures,
                   sending_start, sending_duration, results, r, sent_txs,
                   submit_calls, node_reply, arrival>>

\* client.get_transaction_count(wallet_address, None).await? at line 80.
GetTransactionCount ==
    /\ pc = "get_nonce"
    /\ rpc_log' = Append(rpc_log, "get_transaction_count")
    /\ \/ /\ \E s \in StartNonces : starting_nonce' = s
          /\ pc' = "get_gas_price"
          /\ UNCHANGED console
       \/ /\ pc' = "aborted"
          /\ UNCHANGED starting_nonce
          /\ console' = Append(console, Fatal("ConnectionError"))
    /\ UNCHANGED <<num_transactions, buildErrs, default_gas_price, gas_price,
                   i, prepared_txs, futures, sending_start, sending_duration,
                   results, r, sent_txs, submit_calls, node_reply, arrival>>

\* client.get_gas_price().await? and the 3x policy at lines 81-82; the
\* batch timer and the preparation timer start at lines 93 and 100.
GetGasPrice ==
    /\ pc = "get_gas_price"
    /\ rpc_log' = Append(rpc_log, "get_gas_price")
    /\ \/ /\ \E p \in BaselinePrices :
                /\ default_gas_price' = p
                /\ gas_price' = p * GAS_MULTIPLIER
          /\ pc' = "prepare"
          /\ UNCHANGED console
       \/ /\ pc' = "aborted"
          /\ UNCHANGED <<default_gas_price, gas_price>>
          /\ console' = Append(console, Fatal("ConnectionError"))
    /\ UNCHANGED <<num_transactions, buildErrs, starting_nonce, i,
                   prepared_txs, futures, sending_start, sending_duration,
                   results, r, sent_txs, submit_calls, node_reply, arrival>>

\* ---------------------------------------------------------- preparation
PrepareStep_silent ==
    /\ pc = "prepare"
    /\ LoopContinues(i)
    /\ LET nonce == NonceFor(i)
           built == BuildResult(i, nonce, gas_price)
       IN  IF built.ok
           THEN /\ prepared_txs' = Append(prepared_txs, <<i, nonce, built.tx>>)
                /\ console' = Append(console,
                                     Line("prepared", i + 1, <<nonce>>, "", 0))
           ELSE /\ prepared_txs' = prepared_txs
                /\ console' = console
    /\ i' = i + 1
    /\ UNCHANGED <<pc, num_transactions, buildErrs, starting_nonce,
                   default_gas_price, gas_price, futures, sending_start,
                   sending_duration, results, r, sent_txs, rpc_log,
                   submit_calls, node_reply, arrival>>

\* One iteration of the loop at lines 101-113.
PrepareStep ==
    /\ pc = "prepare"
    /\ LoopContinues(i)
    /\ LET nonce == NonceFor(i)
           built == BuildResult(i, nonce, gas_price)
       IN  IF built.ok
           THEN /\ prepared_txs' = Append(prepared_txs, <<i, nonce, built.tx>>)
                /\ console' = Append(console,
                                     Line("prepared", i + 1, <<nonce>>, "", 0))
           ELSE /\ prepared_txs' = prepared_txs
                /\ console' = Append(console,
                                     Line("prepare_failed", i + 1, <<>>,
                                          built.err, 0))
    /\ i' = i + 1
    /\ UNCHANGED <<pc, num_transactions, buildErrs, starting_nonce,
                   default_gas_price, gas_price, futures, sending_start,
                   sending_duration, results, r, sent_txs, rpc_log,
                   submit_calls, node_reply, arrival>>

\* Loop exit, the preparation report and the two Vec::with_capacity calls
\* (lines 114-122).
PrepareDone ==
    /\ pc = "prepare"
    /\ ~LoopContinues(i)
    /\ pc' = "create_futures"
    /\ UNCHANGED <<num_transactions, buildErrs, starting_nonce,
                   default_gas_price, gas_price, i, prepared_txs, futures,
                   sending_start, sending_duration, results, r, sent_txs,
                   rpc_log, submit_calls, node_reply, arrival, console>>

\* ------------------------------------------------------------- dispatch
\* One iteration of the loop at lines 125-132: an async block is pushed; it
\* is not polled, so nothing of it runs yet.
CreateFuture ==
    /\ pc = "create_futures"
    /\ Len(futures) < Len(prepared_txs)
    /\ LET item == prepared_txs[Len(futures) + 1]
       IN  futures' = Append(futures,
                             [i |-> item[1], nonce |-> item[2], tx |-> item[3],
                              state |-> "created", result |-> <<>>])
    /\ UNCHANGED <<pc, num_transactions, buildErrs, starting_nonce,
                   default_gas_price, gas_price, i, prepared_txs,
                   sending_start, sending_duration, results, r, sent_txs,
                   rpc_log, submit_calls, node_reply, arrival, console>>

\* let sending_start = Instant::now() (line 135), then join_all is awaited.
StartTimer ==
    /\ pc = "create_futures"
    /\ Len(futures) = Len(prepared_txs)
    /\ sending_start' = TRUE
    /\ pc' = "join"
    /\ UNCHANGED <<num_transactions, buildErrs, starting_nonce,
                   default_gas_price, gas_price, i, prepared_txs, futures,
                   sending_duration, results, r, sent_txs, rpc_log,
                   submit_calls, node_reply, arrival, console>>

CanPoll_sequential(k) == \A j \in 1 .. (k - 1) : futures[j].state = "done"

\* join_all polls its futures in order; the first poll of a future runs it
\* up to the await of client.send_transaction.
CanPoll(k) == \A j \in 1 .. (k - 1) : futures[j].state # "created"

StartSubmit_eager(k) ==
    /\ pc \in {"create_futures", "join"}
    /\ futures[k].state = "created"
    /\ CanPoll(k)
    /\ futures' = [futures EXCEPT ![k].state = "sending"]
    /\ submit_calls' = [submit_calls EXCEPT ![futures[k].i] = @ + 1]
    /\ rpc_log' = Append(rpc_log, "send_transaction")
    /\ UNCHANGED <<pc, num_transactions, buildErrs, starting_nonce,
                   default_gas_price, gas_price, i, prepared_txs,
                   sending_start, sending_duration, results, r, sent_txs,
                   node_reply, arrival, console>>

\* First poll of future k: send_transaction calls client.send_transaction
\* (lines 129, 41-44).
StartSubmit(k) ==
    /\ pc = "join"
    /\ futures[k].state = "created"
    /\ CanPoll(k)
    /\ futures' = [futures EXCEPT ![k].state = "sending"]
    /\ submit_calls' = [submit_calls EXCEPT ![futures[k].i] = @ + 1]
    /\ rpc_log' = Append(rpc_log, "send_transaction")
    /\ UNCHANGED <<pc, num_transactions, buildErrs, starting_nonce,
                   default_gas_price, gas_price, i, prepared_txs,
                   sending_start, sending_duration, results, r, sent_txs,
                   node_reply, arrival, console>>

AfterReply_retry(futs, k, reply) ==
    IF reply.ok
    THEN [futs EXCEPT ![k].state = "done", ![k].result = <<reply>>]
    ELSE [futs EXCEPT ![k].state = "created"]

AfterReply_cancelSiblings(futs, k, reply) ==
    IF reply.ok
    THEN [futs EXCEPT ![k].state = "done", ![k].result = <<reply>>]
    ELSE [j \in 1 .. Len(futs) |->
            IF j = k \/ futs[j].state # "done"
            THEN [futs[j] EXCEPT !.state = "done", !.result = <<reply>>]
            ELSE futs[j]]

AfterReply_hang(futs, k, reply) ==
    IF reply.ok
    THEN [futs EXCEPT ![k].state = "done", ![k].result = <<reply>>]
    ELSE [futs EXCEPT ![k].state = "cancelled"]

\* send_transaction returns Err through `?` or Ok(tx_hash); the async block
\* yields (i, nonce, result) and the future is complete (lines 44-51, 129-130).
AfterReply(futs, k, reply) ==
    [futs EXCEPT ![k].state = "done", ![k].result = <<reply>>]

\* client.send_transaction of future k returns.
Complete(k) ==
    /\ futures[k].state = "sending"
    /\ \E reply \in Replies(futures[k].tx) :
          /\ futures' = AfterReply(futures, k, reply)
          /\ node_reply' = Append(node_reply, <<futures[k].tx.nonce, reply>>)
    /\ arrival' = Append(arrival, k)
    /\ UNCHANGED <<pc, num_transactions, buildErrs, starting_nonce,
                   default_gas_price, gas_price, i, prepared_txs,
                   sending_start, sending_duration, results, r, sent_txs,
                   rpc_log, submit_calls, console>>

\* join_all resolves when every future has produced its output.
JoinReady == \A k \in 1 .. Len(futures) : futures[k].state = "done"

Output(f) == <<f.i, f.nonce, f.result[1]>>

JoinOutputs_okOnly ==
    LET F[k \in 0 .. Len(futures)] ==
          IF k = 0 THEN <<>>
          ELSE IF futures[k].state = "done" /\ futures[k].result[1].ok
               THEN Append(F[k - 1], Output(futures[k]))
               ELSE F[k - 1]
    IN  F[Len(futures)]

JoinOutputs_arrivalOrder ==
    [k \in 1 .. Len(arrival) |->
        <<futures[k].i, futures[k].nonce, futures[arrival[k]].result[1]>>]

JoinOutputs_unordered ==
    [k \in 1 .. Len(arrival) |-> Output(futures[arrival[k]])]

\* The Vec returned by join_all: the outputs in the order of the futures.
JoinOutputs == [k \in 1 .. Len(futures) |-> Output(futures[k])]

DoneOutputs ==
    LET F[k \in 0 .. Len(futures)] ==
          IF k = 0 THEN <<>>
          ELSE IF futures[k].state = "done"
               THEN Append(F[k - 1], Output(futures[k]))
               ELSE F[k - 1]
    IN  F[Len(futures)]

JoinReturn_shortCircuit ==
    /\ pc = "join"
    /\ \/ \A k \in 1 .. Len(futures) : futures[k].state = "done"
       \/ \E k \in 1 .. Len(futures) :
             futures[k].state = "done" /\ ~futures[k].result[1].ok
    /\ results' = DoneOutputs
    /\ sending_duration' = TRUE
    /\ r' = 1
    /\ pc' = "process"
    /\ UNCHANGED <<num_transactions, buildErrs, starting_nonce,
                   default_gas_price, gas_price, i, prepared_txs, futures,
                   sending_start, sent_txs, rpc_log, submit_calls, node_reply,
                   arrival, console>>

\* join_all(futures).await returns and the timer is read (lines 136-137).
JoinReturn ==
    /\ pc = "join"
    /\ JoinReady
    /\ results' = JoinOutputs
    /\ sending_duration' = TRUE
    /\ r' = 1
    /\ pc' = "process"
    /\ UNCHANGED <<num_transactions, buildErrs, starting_nonce,
                   default_gas_price, gas_price, i, prepared_txs, futures,
                   sending_start, sent_txs, rpc_log, submit_calls, node_reply,
                   arrival, console>>

ProcessResult_countAll ==
    /\ pc = "process"
    /\ r <= Len(results)
    /\ IF results[r][3].ok
       THEN /\ sent_txs' = Append(sent_txs, results[r][3].hash)
            /\ console' = Append(console,
                                 Line("sent", results[r][1] + 1,
                                      <<results[r][2]>>, "", 0))
       ELSE /\ sent_txs' = Append(sent_txs, results[r][2])
            /\ console' = Append(console,
                                 Line("send_failed", results[r][1] + 1,
                                      <<results[r][2]>>, results[r][3].err, 0))
    /\ r' = r + 1
    /\ UNCHANGED <<pc, num_transactions, buildErrs, starting_nonce,
                   default_gas_price, gas_price, i, prepared_txs, futures,
                   sending_start, sending_duration, results, rpc_log,
                   submit_calls, node_reply, arrival>>

\* One iteration of the loop at lines 140-150.
ProcessResult ==
    /\ pc = "process"
    /\ r <= Len(results)
    /\ IF results[r][3].ok
       THEN /\ sent_txs' = Append(sent_txs, results[r][3].hash)
            /\ console' = Append(console,
                                 Line("sent", results[r][1] + 1,
                                      <<results[r][2]>>, "", 0))
       ELSE /\ sent_txs' = sent_txs
            /\ console' = Append(console,
                                 Line("send_failed", results[r][1] + 1,
                                      <<results[r][2]>>, results[r][3].err, 0))
    /\ r' = r + 1
    /\ UNCHANGED <<pc, num_transactions, buildErrs, starting_nonce,
                   default_gas_price, gas_price, i, prepared_txs, futures,
                   sending_start, sending_duration, results, rpc_log,
                   submit_calls, node_reply, arrival>>

\* The throughput report and the summary (lines 152-163).
Finish ==
    /\ pc = "process"
    /\ r > Len(results)
    /\ pc' = "done"
    /\ console' = Append(console, Line("summary", 0, <<>>, "", Len(sent_txs)))
    /\ UNCHANGED <<num_transactions, buildErrs, starting_nonce,
                   default_gas_price, gas_price, i, prepared_txs, futures,
                   sending_start, sending_duration, results, r, sent_txs,
                   rpc_log, submit_calls, node_reply, arrival>>

Next ==
    \/ ReadConfig
    \/ BuildClient
    \/ GetChainId
    \/ GetTransactionCount
    \/ GetGasPrice
    \/ PrepareStep
    \/ PrepareDone
    \/ CreateFuture
    \/ StartTimer
    \/ \E k \in 1 .. Len(futures) : StartSubmit(k)
    \/ \E k \in 1 .. Len(futures) : Complete(k)
    \/ JoinReturn
    \/ ProcessResult
    \/ Finish

Spec == Init /\ [][Next]_vars

SpecBuildErr == InitBuildErr /\ [][Next]_vars

\* The steps of main itself: sequential code that runs on when it can.
MainStep ==
    \/ ReadConfig
    \/ BuildClient
    \/ GetChainId
    \/ GetTransactionCount
    \/ GetGasPrice
    \/ PrepareStep
    \/ PrepareDone
    \/ CreateFuture
    \/ StartTimer
    \/ JoinReturn
    \/ ProcessResult
    \/ Finish

PollFuture(k) == k <= Len(futures) /\ StartSubmit(k)

CallReturns(k) == k <= Len(futures) /\ Complete(k)

\* main keeps running, join_all polls every future it holds, and every
\* call of client.send_transaction eventually returns.
FairSpec ==
    /\ Init
    /\ [][Next]_vars
    /\ WF_vars(MainStep)
    /\ \A k \in 1 .. MaxBatch : WF_vars(PollFuture(k)) /\ WF_vars(CallReturns(k))

\* ------------------------------------------------------------ properties
Count(name) == Cardinality({m \in 1 .. Len(rpc_log) : rpc_log[m] = name})

Returned == pc \in {"process", "done"}

\* The sequence indices that the preparation loop has gone past without
\* placing an item in the batch.
Skipped(idx) ==
    /\ idx < i
    /\ \A p \in 1 .. Len(prepared_txs) : prepared_txs[p][1] # idx

NodeReplied(nonce, reply) ==
    \E m \in 1 .. Len(node_reply) : node_reply[m] = <<nonce, reply>>

RepliesFor(nonce) ==
    Cardinality({m \in 1 .. Len(node_reply) : node_reply[m][1] = nonce})

\* C1: every item of the prepared batch with sequence index idx carries the
\* nonce starting_nonce + idx (in the tuple and in its transaction); in batch
\* order the nonces are strictly increasing, hence without duplicates, and
\* lie in [starting_nonce, starting_nonce + num_transactions - 1], whether or
\* not some builds failed.
C1_NoncesSequenced ==
    /\ \A p \in 1 .. Len(prepared_txs) :
          /\ prepared_txs[p][2] = starting_nonce + prepared_txs[p][1]
          /\ prepared_txs[p][3].nonce = prepared_txs[p][2]
          /\ prepared_txs[p][2] >= starting_nonce
          /\ prepared_txs[p][2] <= starting_nonce + num_transactions - 1
    /\ \A p, q \in 1 .. Len(prepared_txs) :
          p < q => prepared_txs[p][2] < prepared_txs[q][2]

\* A finished preparation with two items built around a failed build.
C1_Witness ==
    /\ pc = "create_futures"
    /\ Len(prepared_txs) = 2
    /\ Skipped(1)
    /\ starting_nonce = 5

\* C2: no submission call is issued, and no future leaves its created state,
\* until the preparation loop has gone through all num_transactions items;
\* the transaction count of the account is queried exactly once, before the
\* first item is built, and never again.
C2_PrepBeforeDispatch ==
    /\ (\/ Count("send_transaction") > 0
        \/ \E k \in 1 .. Len(futures) : futures[k].state # "created")
          => (i = num_transactions /\ pc \in {"join", "process", "done"})
    /\ Count("get_transaction_count") <= 1
    /\ (i > 0 \/ prepared_txs # <<>> \/ pc = "prepare")
          => Count("get_transaction_count") = 1

\* A submission is in flight in a batch of at least two items.
C2_Witness ==
    /\ pc = "join"
    /\ num_transactions >= 2
    /\ Count("send_transaction") = 1
    /\ Count("get_transaction_count") = 1

\* C3: join_all returns exactly one outcome per prepared item: as many
\* outcomes as prepared items, and each prepared sequence index in exactly
\* one outcome.
C3_OneOutcomePerItem ==
    Returned =>
        /\ Len(results) = Len(prepared_txs)
        /\ \A p \in 1 .. Len(prepared_txs) :
              Cardinality({k \in 1 .. Len(results) :
                              results[k][1] = prepared_txs[p][1]}) = 1

\* Outcomes of a batch with a failure and a success, completed out of order.
C3_Witness ==
    /\ pc = "done"
    /\ Len(prepared_txs) >= 2
    /\ \E k \in 1 .. Len(results) : results[k][3].ok
    /\ \E k \in 1 .. Len(results) : ~results[k][3].ok
    /\ arrival[1] # 1

\* C4: client.send_transaction is never called twice for an item and never
\* for a sequence index that is not in the prepared batch; once the join has
\* returned it has been called exactly once for every prepared item.
C4_ExactlyOneSubmit ==
    /\ \A idx \in Indices : submit_calls[idx] <= 1
    /\ \A idx \in Indices :
          (\A p \in 1 .. Len(prepared_txs) : prepared_txs[p][1] # idx)
             => submit_calls[idx] = 0
    /\ Returned =>
          /\ \A p \in 1 .. Len(prepared_txs) :
                submit_calls[prepared_txs[p][1]] = 1
          /\ Count("send_transaction") = Len(prepared_txs)

\* The run has ended and a submission that failed was called once.
C4_Witness ==
    /\ pc = "done"
    /\ \E k \in 1 .. Len(results) :
          ~results[k][3].ok /\ submit_calls[results[k][1]] = 1

\* C5: while the join is pending, the next future in polling order can start
\* its submission whatever the state of the futures polled before it
\* (submitting or completed), and every future's outcome is in the joined
\* result.
C5_NoBlocking ==
    /\ \A k \in 1 .. Len(futures) :
          (/\ pc = "join"
           /\ futures[k].state = "created"
           /\ \A j \in 1 .. (k - 1) : futures[j].state # "created")
             => ENABLED StartSubmit(k)
    /\ Returned =>
          \A k \in 1 .. Len(futures) :
             \E m \in 1 .. Len(results) : results[m] = Output(futures[k])

\* The later-indexed submission has completed while the earlier-indexed one
\* is still submitting.
C5_Witness ==
    /\ pc = "join"
    /\ Len(futures) >= 2
    /\ futures[1].state = "sending"
    /\ futures[2].state = "done"

\* C6: the joined results exist, the dispatch timer is read and result
\* processing runs only when every submission future has completed, and
\* the results then hold the outcome of each of them.
C6_JoinsOnFullSet ==
    (Returned \/ sending_duration \/ results # <<>> \/ sent_txs # <<>>) =>
        /\ \A k \in 1 .. Len(futures) : futures[k].state = "done"
        /\ Len(results) = Len(futures)

\* The join has returned although the first submission to complete failed.
C6_Witness ==
    /\ pc = "process"
    /\ Len(futures) >= 2
    /\ ~futures[arrival[1]].result[1].ok

\* C7: when a submission has failed, the run is not aborted and every other
\* future is untouched: it is still to be polled, or still submitting, or
\* it completed with an answer the node gave for its own nonce; once the
\* join has returned, every sibling was submitted and its outcome is the
\* node's answer for it.
C7_SiblingsUnaffected ==
    \A k \in 1 .. Len(futures) :
       (futures[k].state = "done" /\ ~futures[k].result[1].ok) =>
          /\ pc \in {"join", "process", "done"}
          /\ \A j \in (1 .. Len(futures)) \ {k} :
                /\ futures[j].state \in {"created", "sending", "done"}
                /\ futures[j].state # "done" => futures[j].result = <<>>
                /\ futures[j].state = "done" =>
                      /\ futures[j].result[1] \in Replies(futures[j].tx)
                      /\ NodeReplied(futures[j].nonce, futures[j].result[1])
                /\ Returned =>
                      /\ submit_calls[futures[j].i] = 1
                      /\ results[j][3] = futures[j].result[1]
                      /\ NodeReplied(results[j][2], results[j][3])

\* The first item failed, its sibling was accepted afterwards, and the run
\* reached the end.
C7_Witness ==
    /\ pc = "done"
    /\ Len(results) >= 2
    /\ ~results[1][3].ok
    /\ results[2][3].ok
    /\ arrival[1] = 1

\* C8: every outcome of the joined result carries the sequence index and the
\* nonce of one prepared item, and its result is the one answer the node
\* gave for the transaction with that nonce (a hash is the hash of that
\* item's transaction).
C8_Attribution ==
    Returned =>
        \A k \in 1 .. Len(results) :
           /\ \E p \in 1 .. Len(prepared_txs) :
                 /\ prepared_txs[p][1] = results[k][1]
                 /\ prepared_txs[p][2] = results[k][2]
                 /\ results[k][3].ok =>
                       results[k][3].hash = TxHash(prepared_txs[p][3])
           /\ NodeReplied(results[k][2], results[k][3])
           /\ RepliesFor(results[k][2]) = 1

\* Three submissions completed in reverse order with different results.
C8_Witness ==
    /\ pc = "done"
    /\ arrival = <<3, 2, 1>>
    /\ results[1][3].ok
    /\ ~results[2][3].ok
    /\ results[3][3].ok

\* C9: the nonce of a skipped sequence index is carried by no item of the
\* batch, and the item that follows a skipped index k has the nonce
\* starting_nonce + k + 1.
C9_NoCompaction ==
    \A idx \in Indices :
       Skipped(idx) =>
          \A p \in 1 .. Len(prepared_txs) :
             /\ prepared_txs[p][2] # starting_nonce + idx
             /\ prepared_txs[p][3].nonce # starting_nonce + idx
             /\ prepared_txs[p][1] = idx + 1
                   => prepared_txs[p][2] = starting_nonce + idx + 1

\* The build of item 0 failed and item 1 was built next.
C9_Witness ==
    /\ Skipped(0)
    /\ Len(prepared_txs) >= 1
    /\ prepared_txs[1][1] = 1
    /\ prepared_txs[1][2] = starting_nonce + 1

\* C10: with num_transactions = 0 the preparation loop and the dispatch do
\* nothing: the batch, the futures, the joined results and the sent hashes
\* stay empty, no loop advances, and from the start of preparation on the
\* only RPC calls ever made are the three setup queries.
C10_EmptyBatch ==
    num_transactions = 0 =>
        /\ prepared_txs = <<>>
        /\ futures = <<>>
        /\ results = <<>>
        /\ sent_txs = <<>>
        /\ i = 0
        /\ r = 1
        /\ Count("send_transaction") = 0
        /\ \A idx \in Indices : submit_calls[idx] = 0
        /\ pc \in {"prepare", "create_futures", "join", "process", "done"}
              => rpc_log = <<"get_chainid", "get_transaction_count",
                             "get_gas_price">>

\* An empty batch ran to the end.
C10_Witness ==
    /\ num_transactions = 0
    /\ pc = "done"
    /\ sending_start
    /\ sending_duration

\* The state of an item in the terms of the per-item state machine.
ItemState(f) ==
    IF f.state = "created" THEN "Prepared"
    ELSE IF f.state = "sending" THEN "Submitting"
    ELSE IF f.state = "done" /\ f.result[1].ok THEN "Submitted"
    ELSE IF f.state = "done" THEN "Failed"
    ELSE "Other"

ItemMoves ==
    {<<"Prepared", "Submitting">>, <<"Submitting", "Submitted">>,
     <<"Submitting", "Failed">>}

C11_Step ==
    /\ Len(futures') >= Len(futures)
    /\ \A k \in 1 .. Len(futures') :
          /\ ItemState(futures'[k]) \in
                {"Prepared", "Submitting", "Submitted", "Failed"}
          /\ k <= Len(prepared_txs')
          /\ <<futures'[k].i, futures'[k].nonce, futures'[k].tx>>
                = prepared_txs'[k]
          /\ IF k > Len(futures)
             THEN ItemState(futures'[k]) = "Prepared"
             ELSE \/ /\ ItemState(futures'[k]) = ItemState(futures[k])
                     /\ futures'[k] = futures[k]
                  \/ <<ItemState(futures[k]), ItemState(futures'[k])>>
                        \in ItemMoves

\* C11: every step of the program leaves each item where it is or moves it
\* along Prepared -> Submitting -> Submitted or Failed; a new item starts as
\* Prepared, Submitted and Failed are never left, and every item that exists
\* as a submission future is an item of the prepared batch.
C11_ItemStateMachine == [][C11_Step]_vars

\* One item has been accepted, one has failed and one is still submitting.
C11_Witness ==
    /\ Len(futures) = 3
    /\ ItemState(futures[1]) = "Submitted"
    /\ ItemState(futures[2]) = "Failed"
    /\ ItemState(futures[3]) = "Submitting"

\* C12: under fair scheduling, with every submission call returning, once
\* the join has started every future completes (its item is Submitted or
\* Failed) and the join returns.
C12_AllTerminate ==
    /\ \A k \in 1 .. MaxBatch :
          (pc = "join" /\ k <= Len(futures))
             ~> (k <= Len(futures) /\ futures[k].state = "done")
    /\ (pc = "join") ~> Returned

\* The join returned for a full batch in which a submission failed.
C12_Witness ==
    /\ pc = "process"
    /\ r = 1
    /\ Len(results) = 3
    /\ ~results[1][3].ok

\* C13: every built transaction has value 0, gas limit 21000, the nonce of
\* its batch entry and the batch gas price, which is 3 times the baseline
\* read by the single get_gas_price call; with starting nonce 5, batch size
\* 3 and baseline 30 the nonces are 5, 6, 7 and every gas price is 90.
C13_IntentFields ==
    /\ Count("get_gas_price") <= 1
    /\ \A p \in 1 .. Len(prepared_txs) :
          /\ Count("get_gas_price") = 1
          /\ prepared_txs[p][3].value = 0
          /\ prepared_txs[p][3].gas = 21000
          /\ prepared_txs[p][3].nonce = prepared_txs[p][2]
          /\ prepared_txs[p][3].gas_price = 3 * default_gas_price
          /\ prepared_txs[p][3].gas_price = prepared_txs[1][3].gas_price
    /\ \A k \in 1 .. Len(futures) : futures[k].tx = prepared_txs[k][3]
    /\ (/\ starting_nonce = 5
        /\ num_transactions = 3
        /\ default_gas_price = 30
        /\ pc \in {"create_futures", "join", "process", "done"})
          => /\ [p \in 1 .. Len(prepared_txs) |-> prepared_txs[p][3].nonce]
                  = <<5, 6, 7>>
             /\ \A p \in 1 .. 3 : prepared_txs[p][3].gas_price = 90

\* The batch of the scenario: starting nonce 5, three items, baseline 30.
C13_Witness ==
    /\ pc = "create_futures"
    /\ starting_nonce = 5
    /\ num_transactions = 3
    /\ default_gas_price = 30
    /\ Len(prepared_txs) = 3

OkResults == {k \in 1 .. Len(results) : results[k][3].ok}

\* C14: at the end of the run a failed submission is an entry of the
\* results that carries the cause the node gave for its nonce, and the
\* number of sent hashes, which the summary prints, is the number of
\* submissions that returned a hash; with nonces 5, 6, 7 and NonceRejected
\* for 6 alone there are 3 entries, the one for nonce 6 holds NonceRejected
\* and the success count is 2.
C14_FailuresKept ==
    pc = "done" =>
        /\ \A k \in 1 .. Len(results) :
              ~results[k][3].ok =>
                 /\ results[k][3].err \in
                       {"NonceRejected", "TransportError", "SignerError"}
                 /\ NodeReplied(results[k][2],
                                [ok |-> FALSE, err |-> results[k][3].err])
        /\ Len(sent_txs) = Cardinality(OkResults)
        /\ Len(sent_txs) =
              Cardinality({m \in 1 .. Len(node_reply) : node_reply[m][2].ok})
        /\ console[Len(console)].kind = "summary"
        /\ console[Len(console)].count = Cardinality(OkResults)
        /\ (/\ NodeReplied(5, [ok |-> TRUE, hash |-> 5])
            /\ NodeReplied(6, [ok |-> FALSE, err |-> "NonceRejected"])
            /\ NodeReplied(7, [ok |-> TRUE, hash |-> 7])
            /\ Len(node_reply) = 3)
              => /\ Len(results) = 3
                 /\ results[2][2] = 6
                 /\ results[2][3].err = "NonceRejected"
                 /\ results[2][3].err \notin {"TransportError", "SignerError"}
                 /\ Len(sent_txs) = 2

\* The scenario: nonce 6 was rejected, nonces 5 and 7 were accepted.
C14_Witness ==
    /\ pc = "done"
    /\ NodeReplied(5, [ok |-> TRUE, hash |-> 5])
    /\ NodeReplied(6, [ok |-> FALSE, err |-> "NonceRejected"])
    /\ NodeReplied(7, [ok |-> TRUE, hash |-> 7])
    /\ Len(node_reply) = 3

HasFatal(cause) ==
    \E m \in 1 .. Len(console) :
       console[m].kind = "fatal" /\ console[m].err = cause

NothingBuiltOrSent ==
    /\ i = 0
    /\ prepared_txs = <<>>
    /\ futures = <<>>
    /\ Count("send_transaction") = 0
    /\ \A idx \in Indices : submit_calls[idx] = 0

\* C15: after a missing setting was diagnosed no RPC call has been or is
\* ever made; after a connection error was diagnosed preparation has not
\* started; in both cases the run is over with no transaction built and no
\* submission issued.
C15_FatalStopsEarly ==
    /\ HasFatal("ConfigError") =>
          /\ rpc_log = <<>>
          /\ pc = "aborted"
          /\ NothingBuiltOrSent
    /\ HasFatal("ConnectionError") =>
          /\ pc = "aborted"
          /\ NothingBuiltOrSent
    /\ pc = "aborted" => NothingBuiltOrSent

\* The chain id query failed and the run was aborted.
C15_Witness ==
    /\ pc = "aborted"
    /\ HasFatal("ConnectionError")
    /\ rpc_log = <<"get_chainid">>

SkippedSet == {idx \in Indices : Skipped(idx)}

FailedResults == {k \in 1 .. Len(results) : ~results[k][3].ok}

\* The lines printed for the build failure of sequence index idx.
BuildFailureLines(idx) ==
    {m \in 1 .. Len(console) :
        console[m].kind = "prepare_failed" /\ console[m].tx = idx + 1}

\* Every failure is reported inline and lowers the final count: a processed
\* failed submission has a line with its number, nonce and cause, and the
\* summary count is the batch size less the skipped and the failed items.
FailuresCounted ==
    /\ \A k \in 1 .. Len(results) :
          (~results[k][3].ok /\ (k < r \/ pc = "done")) =>
             \E m \in 1 .. Len(console) :
                console[m] = Line("send_failed", results[k][1] + 1,
                                  <<results[k][2]>>, results[k][3].err, 0)
    /\ pc = "done" =>
          /\ console[Len(console)].kind = "summary"
          /\ console[Len(console)].count =
                num_transactions - Cardinality(SkippedSet)
                                 - Cardinality(FailedResults)

\* Preparation goes on after a failed build: every index the loop has passed
\* is either skipped because its own build failed or in the batch, and the
\* loop ends only at num_transactions.
PreparationContinues ==
    /\ \A idx \in Indices : Skipped(idx) => idx \in buildErrs
    /\ \A idx \in Indices :
          (idx < i /\ idx \notin buildErrs) =>
             \E p \in 1 .. Len(prepared_txs) : prepared_txs[p][1] = idx
    /\ pc \in {"create_futures", "join", "process", "done"}
          => i = num_transactions

C18_AllBuilt ==
    /\ \A m \in 1 .. Len(console) : console[m].kind # "prepare_failed"
    /\ Len(prepared_txs) = i
    /\ pc \in {"create_futures", "join", "process", "done"}
          => Len(prepared_txs) = num_transactions
    /\ \A p \in 1 .. Len(prepared_txs) :
          /\ prepared_txs[p][1] = p - 1
          /\ prepared_txs[p][2] = starting_nonce + p - 1

\* A full batch of three has been prepared from nonce 0.
C18_Witness ==
    /\ pc = "create_futures"
    /\ num_transactions = 3
    /\ starting_nonce = 0
    /\ Len(prepared_txs) = 3
    /\ Len(futures) = 0

\* C19: the joined results are in the order of the prepared batch, whatever
\* the order of completion: entry k belongs to batch item k, so sequence
\* indices and nonces ascend; the sent hashes are those of the successful
\* entries processed so far, in that same order.
C19_BatchOrder ==
    Returned =>
        /\ \A k \in 1 .. Len(results) :
              /\ results[k][1] = prepared_txs[k][1]
              /\ results[k][2] = prepared_txs[k][2]
        /\ \A k, l \in 1 .. Len(results) :
              k < l => (results[k][1] < results[l][1]
                        /\ results[k][2] < results[l][2])
        /\ \A a, b \in 1 .. Len(sent_txs) : a < b => sent_txs[a] < sent_txs[b]
        /\ \A a \in 1 .. Len(sent_txs) :
              \E k \in 1 .. Len(results) :
                 /\ k < r
                 /\ results[k][3] = Ok(sent_txs[a])
                 /\ Cardinality({j \in 1 .. k : results[j][3].ok}) = a

\* All submissions succeeded, the last one first.
C19_Witness ==
    /\ pc = "done"
    /\ Len(results) = 3
    /\ arrival[1] = 3
    /\ Len(sent_txs) = 3

\* C20: a future does nothing before join_all polls it: while the futures
\* are being created and until the dispatch timer is started no submission
\* call has been made and nothing has completed; the timer is read only
\* when every future has completed, so every submission call starts after
\* the timer's start and returns before its end.
C20_TimerCoversSubmissions ==
    /\ (pc = "create_futures" \/ ~sending_start) =>
          /\ \A k \in 1 .. Len(futures) :
                futures[k].state = "created" /\ futures[k].result = <<>>
          /\ Count("send_transaction") = 0
          /\ arrival = <<>>
          /\ node_reply = <<>>
    /\ sending_duration =>
          /\ sending_start
          /\ \A k \in 1 .. Len(futures) : futures[k].state = "done"
          /\ Len(arrival) = Len(futures)
          /\ Count("send_transaction") = Len(futures)

\* Every future of a batch of three exists and none has been polled.
C20_Witness ==
    /\ pc = "create_futures"
    /\ Len(futures) = 3
    /\ ~sending_start
    /\ \A k \in 1 .. 3 : futures[k].state = "created"

====
